---------------------------- MODULE Spec2Model ----------------------------
(***************************************************************************)
(* A model of openstack/proxy.py: the _check_resource decorator and the    *)
(* BaseProxy operations _get_resource, _delete, _update, _create, _get,    *)
(* _list and _head.                                                        *)
(*                                                                         *)
(* The state is the proxy's session reference, the resource instances the  *)
(* caller owns (Python objects, which the proxy mutates in place when it   *)
(* is handed one), and the record of the call being made: its arguments,   *)
(* the instances the resolver returned, the capability invocations, and    *)
(* what the call returned or raised.                                       *)
(***************************************************************************)
EXTENDS Naturals, Sequences, FiniteSets

VARIABLES session, heap, call

vars == <<session, heap, call>>

(***************************************************************************)
(* Bounds and input domains.                                               *)
(***************************************************************************)
\* The largest number of entries of a mapping the caller passes
\* (path_args, **attrs).
MaxKeys == 1

\* Python's None, as an attribute value and as printed by "%s".
None == "None"

\* A key that a mapping passed by the caller does not hold.
Missing == "<missing>"

\* Attribute names; "id" is the default Resource.id_attribute.
Keys == {"id", "project_id"}

\* Attribute values.
Vals == {"a", "b"}

\* Raw identifiers the caller passes as a value.
RawIds == Vals

\* Resource classes the caller uses; ServerDetail subclasses Server.
ResourceTypes == {"Server", "ServerDetail", "Volume"}

Subclass == {<<"ServerDetail", "Server">>}

\* resource_type.id_attribute
id_attribute(resource_type) == "id"

\* The objects the caller owns.
Oids == {"o1", "o2"}

\* The identity of an instance built during a call.
NewOid == "new"

\* The session handed to BaseProxy(session).
Sessions == {"session1", "session2"}

(***************************************************************************)
(* Values: None, a raw identifier, or a reference to a caller's instance.  *)
(***************************************************************************)
NoValue == [tag |-> "none", v |-> None]

RawId(i) == [tag |-> "id", v |-> i]

Ref(o) == [tag |-> "res", v |-> o]

Values == {NoValue} \cup {RawId(i) : i \in RawIds} \cup {Ref(o) : o \in Oids}

\* Mappings the caller passes: each key is missing or bound to a value or None.
Dicts ==
    {d \in [Keys -> Vals \cup {None, Missing}] :
        Cardinality({k \in Keys : d[k] # Missing}) <= MaxKeys}

EmptyDict == [k \in Keys |-> Missing]

\* path_args: None (given = FALSE) or a mapping.
NoPathArgs == [given |-> FALSE, map |-> EmptyDict]

PathArgs == {NoPathArgs} \cup {[given |-> TRUE, map |-> d] : d \in Dicts}

\* **query of _list: values are raw or resource instances.
NoQuery == [key |-> Missing, value |-> NoValue]

Queries == {NoQuery, [key |-> "project_id", value |-> Ref("o1")]}

NoAttrs == [k \in Keys |-> None]

(***************************************************************************)
(* Failures and results.                                                   *)
(***************************************************************************)
NoExc == [cls |-> "", message |-> <<>>, details |-> None, status_code |-> None]

Return(rv) == [kind |-> "return", rv |-> rv, exc |-> NoExc]

Raise(exc) == [kind |-> "raise", rv |-> None, exc |-> exc]

ValueError(message) ==
    [cls |-> "ValueError", message |-> message, details |-> None,
     status_code |-> None]

\* exceptions.ResourceNotFound(message, details=..., status_code=...)
ResourceNotFound(message, details, status_code) ==
    [cls |-> "ResourceNotFound", message |-> message, details |-> details,
     status_code |-> status_code]

\* What a capability of a resource (get, delete, update, create, list, head)
\* does with the session: it returns a result, fails with the transport's
\* "not found", or fails otherwise.
CapabilityOutcomes ==
    {Return("rv1"),
     Raise([cls |-> "NotFoundException", message |-> <<"Not Found">>,
            details |-> "d1", status_code |-> "404"]),
     Raise([cls |-> "HttpException", message |-> <<"Server Error">>,
            details |-> "d2", status_code |-> "500"])}

\* except exceptions.NotFoundException as exc
IsNotFound(oc) == oc.kind = "raise" /\ oc.exc.cls = "NotFoundException"

(***************************************************************************)
(* Instances.                                                              *)
(***************************************************************************)
Instance(oid, cls, attrs) == [oid |-> oid, cls |-> cls, attrs |-> attrs]

\* isinstance(x, resource_type) for an x of class cls
IsInstanceOf(cls, resource_type) ==
    cls = resource_type \/ <<cls, resource_type>> \in Subclass

\* isinstance(actual, resource.Resource)
IsResource(actual) == actual.tag = "res"

\* isinstance(value, resource_type), h the caller's objects
isinstance(h, value, resource_type) ==
    IsResource(value) /\ IsInstanceOf(h[value.v].cls, resource_type)

\* "%s" % value
Str(value) == value.v

\* resource.Resource.get_id(value): the id of a resource, or the value itself
get_id(h, value) ==
    IF IsResource(value) THEN h[value.v].attrs[id_attribute(h[value.v].cls)]
    ELSE value.v

\* Resource.update_attrs(attrs, ignore_none=...) on an instance's attributes
update_attrs(attrs, d, ignore_none) ==
    [k \in Keys |->
        IF d[k] = Missing THEN attrs[k]
        ELSE IF ignore_none /\ d[k] = None THEN attrs[k]
        ELSE d[k]]

\* resource_type(): a bare resource
bare(resource_type) == Instance(NewOid, resource_type, NoAttrs)

\* resource_type.existing(**args)
existing(resource_type, args) ==
    Instance(NewOid, resource_type, update_attrs(NoAttrs, args, FALSE))

\* resource_type.new(**attrs)
new(resource_type, attrs) ==
    Instance(NewOid, resource_type, update_attrs(NoAttrs, attrs, FALSE))

\* res._convert_ids(query): resource instances in the query become their ids
_convert_ids(h, query) ==
    IF query.key = Missing THEN query
    ELSE [key |-> query.key, value |-> RawId(get_id(h, query.value))]

\* The caller's objects after the proxy has worked on res: an instance the
\* caller owns is the same Python object, so it carries the changes.
Store(h, res) ==
    IF res.oid \in Oids THEN [h EXCEPT ![res.oid].attrs = res.attrs] ELSE h

\* One capability invocation: res.<cap>(session, ...), and what it did.
Invocation(cap, res, sess, paginated, query, oc) ==
    [cap |-> cap, target |-> res, session |-> sess, paginated |-> paginated,
     query |-> query, result |-> oc]

\* What a call did: the caller's objects afterwards, the instances the
\* resolver returned, the capability invocations, and its outcome.
Result(h, resolved, invoked, outcome) ==
    [heap |-> h, resolved |-> resolved, invoked |-> invoked,
     outcome |-> outcome]

(***************************************************************************)
(* _check_resource                                                         *)
(***************************************************************************)
\* The wrapper without its second test: a resource of another type passes.
_check_resource_no_type_test(strict, h, expected, actual, method) ==
    IF strict /\ actual.tag # "none" /\ ~IsResource(actual)
    THEN Result(h, <<>>, <<>>,
                Raise(ValueError(<<"A", expected, "must be passed">>)))
    ELSE method

\* The wrapper without its first test: strict is not looked at.
_check_resource_strict_ignored(strict, h, expected, actual, method) ==
    IF IsResource(actual) /\ ~isinstance(h, actual, expected)
    THEN Result(h, <<>>, <<>>,
                Raise(ValueError(<<"Expected", expected, "but received",
                                   h[actual.v].cls>>)))
    ELSE method

\* The wrapper check(self, expected, actual, ...): method is what the
\* wrapped method does when it is called.
_check_resource(strict, h, expected, actual, method) ==
    IF strict /\ actual.tag # "none" /\ ~IsResource(actual)
    THEN Result(h, <<>>, <<>>,
                Raise(ValueError(<<"A", expected, "must be passed">>)))
    ELSE IF IsResource(actual) /\ ~isinstance(h, actual, expected)
    THEN Result(h, <<>>, <<>>,
                Raise(ValueError(<<"Expected", expected, "but received",
                                   h[actual.v].cls>>)))
    ELSE method

(***************************************************************************)
(* BaseProxy                                                               *)
(***************************************************************************)
\* The resolver without its last branch: an instance is rebuilt from its id.
_get_resource_rebuilds(h, resource_type, value, path_args) ==
    LET res == IF value.tag = "none" THEN bare(resource_type)
               ELSE existing(resource_type,
                             [EmptyDict EXCEPT ![id_attribute(resource_type)] =
                                 get_id(h, value)])
    IN  IF path_args.given
        THEN [res EXCEPT !.attrs = update_attrs(res.attrs, path_args.map, TRUE)]
        ELSE res

_get_resource(h, resource_type, value, path_args) ==
    LET res == IF value.tag = "none" THEN bare(resource_type)
               ELSE IF ~isinstance(h, value, resource_type)
               THEN existing(resource_type,
                             [EmptyDict EXCEPT ![id_attribute(resource_type)] =
                                 get_id(h, value)])
               ELSE Instance(value.v, h[value.v].cls, h[value.v].attrs)
    IN  IF path_args.given
        THEN [res EXCEPT !.attrs = update_attrs(res.attrs, path_args.map, TRUE)]
        ELSE res

\* _get raising ResourceNotFound without status_code=exc.status_code.
_get_method_no_status(h, resource_type, value, path_args, oc) ==
    LET res == _get_resource(h, resource_type, value, path_args)
        inv == Invocation("get", res, session, FALSE, NoQuery, oc)
    IN  IF IsNotFound(oc)
        THEN Result(Store(h, res), <<res>>, <<inv>>,
                    Raise(ResourceNotFound(
                        <<"No", resource_type, "found for", Str(value)>>,
                        oc.exc.details, None)))
        ELSE Result(Store(h, res), <<res>>, <<inv>>, oc)

_get_method(h, resource_type, value, path_args, oc) ==
    LET res == _get_resource(h, resource_type, value, path_args)
        inv == Invocation("get", res, session, FALSE, NoQuery, oc)
    IN  IF IsNotFound(oc)
        THEN Result(Store(h, res), <<res>>, <<inv>>,
                    Raise(ResourceNotFound(
                        <<"No", resource_type, "found for", Str(value)>>,
                        oc.exc.details, oc.exc.status_code)))
        ELSE Result(Store(h, res), <<res>>, <<inv>>, oc)

_get(h, resource_type, value, path_args, oc) ==
    _check_resource(FALSE, h, resource_type, value,
                    _get_method(h, resource_type, value, path_args, oc))

\* _delete with the test of ignore_missing inverted.
_delete_method_inverted(h, resource_type, value, path_args, ignore_missing, oc) ==
    LET res == _get_resource(h, resource_type, value, path_args)
        inv == Invocation("delete", res, session, FALSE, NoQuery, oc)
    IN  IF IsNotFound(oc)
        THEN IF ~ignore_missing
             THEN Result(Store(h, res), <<res>>, <<inv>>, Return(None))
             ELSE Result(Store(h, res), <<res>>, <<inv>>,
                         Raise(ResourceNotFound(
                             <<"No", resource_type, "found for", Str(value)>>,
                             oc.exc.details, oc.exc.status_code)))
        ELSE Result(Store(h, res), <<res>>, <<inv>>, oc)

\* _delete that deletes a second time after a "not found".
_delete_method_retries(h, resource_type, value, path_args, ignore_missing, oc) ==
    LET res == _get_resource(h, resource_type, value, path_args)
        inv == Invocation("delete", res, session, FALSE, NoQuery, oc)
    IN  IF IsNotFound(oc)
        THEN IF ignore_missing
             THEN Result(Store(h, res), <<res>>, <<inv, inv>>, Return(None))
             ELSE Result(Store(h, res), <<res>>, <<inv, inv>>,
                         Raise(ResourceNotFound(
                             <<"No", resource_type, "found for", Str(value)>>,
                             oc.exc.details, oc.exc.status_code)))
        ELSE Result(Store(h, res), <<res>>, <<inv>>, oc)

_delete_method(h, resource_type, value, path_args, ignore_missing, oc) ==
    LET res == _get_resource(h, resource_type, value, path_args)
        inv == Invocation("delete", res, session, FALSE, NoQuery, oc)
    IN  IF IsNotFound(oc)
        THEN IF ignore_missing
             THEN Result(Store(h, res), <<res>>, <<inv>>, Return(None))
             ELSE Result(Store(h, res), <<res>>, <<inv>>,
                         Raise(ResourceNotFound(
                             <<"No", resource_type, "found for", Str(value)>>,
                             oc.exc.details, oc.exc.status_code)))
        ELSE Result(Store(h, res), <<res>>, <<inv>>, oc)

_delete(h, resource_type, value, path_args, ignore_missing, oc) ==
    _check_resource(FALSE, h, resource_type, value,
                    _delete_method(h, resource_type, value, path_args,
                                   ignore_missing, oc))

\* _update translating a "not found" the way _get does.
_update_method_translates(h, resource_type, value, path_args, attrs, oc) ==
    LET res == _get_resource(h, resource_type, value, path_args)
        upd == [res EXCEPT !.attrs = update_attrs(res.attrs, attrs, FALSE)]
        inv == Invocation("update", upd, session, FALSE, NoQuery, oc)
    IN  IF IsNotFound(oc)
        THEN Result(Store(h, upd), <<res>>, <<inv>>,
                    Raise(ResourceNotFound(
                        <<"No", resource_type, "found for", Str(value)>>,
                        oc.exc.details, oc.exc.status_code)))
        ELSE Result(Store(h, upd), <<res>>, <<inv>>, oc)

_update_method(h, resource_type, value, path_args, attrs, oc) ==
    LET res == _get_resource(h, resource_type, value, path_args)
        upd == [res EXCEPT !.attrs = update_attrs(res.attrs, attrs, FALSE)]
        inv == Invocation("update", upd, session, FALSE, NoQuery, oc)
    IN  Result(Store(h, upd), <<res>>, <<inv>>, oc)

_update(h, resource_type, value, path_args, attrs, oc) ==
    _check_resource(FALSE, h, resource_type, value,
                    _update_method(h, resource_type, value, path_args, attrs,
                                   oc))

\* _create without the merge of path_args.
_create_no_path_args(h, resource_type, path_args, attrs, oc) ==
    LET res == new(resource_type, attrs)
        inv == Invocation("create", res, session, FALSE, NoQuery, oc)
    IN  Result(h, <<>>, <<inv>>, oc)

_create(h, resource_type, path_args, attrs, oc) ==
    LET res == new(resource_type, attrs)
        mrg == IF path_args.given
               THEN [res EXCEPT
                        !.attrs = update_attrs(res.attrs, path_args.map, FALSE)]
               ELSE res
        inv == Invocation("create", mrg, session, FALSE, NoQuery, oc)
    IN  Result(h, <<>>, <<inv>>, oc)

_list(h, resource_type, value, paginated, path_args, query, oc) ==
    LET res == _get_resource(h, resource_type, value, path_args)
        inv == Invocation("list", res, session, paginated,
                          _convert_ids(h, query), oc)
    IN  Result(Store(h, res), <<res>>, <<inv>>, oc)

_head(h, resource_type, value, path_args, oc) ==
    LET res == _get_resource(h, resource_type, value, path_args)
        inv == Invocation("head", res, session, FALSE, NoQuery, oc)
    IN  Result(Store(h, res), <<res>>, <<inv>>, oc)

\* A method wrapped with @_check_resource(strict=True): none of the six
\* operations is, the wrapper offers the mode to the proxies built on them.
_strict(h, resource_type, value) ==
    _check_resource(TRUE, h, resource_type, value,
                    Result(h, <<>>, <<>>, Return("called")))

Idle ==
    [op |-> "idle", resource_type |-> "", value |-> NoValue,
     path_args |-> NoPathArgs, attrs |-> EmptyDict, ignore_missing |-> FALSE,
     paginated |-> FALSE, query |-> NoQuery, resolved |-> <<>>,
     invoked |-> <<>>, outcome |-> Return(None)]

Called(op, resource_type, value, path_args, attrs, ignore_missing, paginated, query, r) ==
    [op |-> op, resource_type |-> resource_type, value |-> value,
     path_args |-> path_args, attrs |-> attrs,
     ignore_missing |-> ignore_missing, paginated |-> paginated,
     query |-> query, resolved |-> r.resolved, invoked |-> r.invoked,
     outcome |-> r.outcome]

Init ==
    /\ session \in Sessions
    /\ heap = [o \in Oids |->
                 IF o = "o1"
                 THEN Instance(o, "ServerDetail", [NoAttrs EXCEPT !["id"] = "a"])
                 ELSE Instance(o, "Volume", [NoAttrs EXCEPT !["id"] = "b"])]
    /\ call = Idle

CallGet ==
    /\ call = Idle
    /\ \E resource_type \in ResourceTypes, value \in Values,
          path_args \in PathArgs, oc \in CapabilityOutcomes :
          LET r == _get(heap, resource_type, value, path_args, oc)
          IN  /\ heap' = r.heap
              /\ call' = Called("get", resource_type, value, path_args,
                                EmptyDict, FALSE, FALSE, NoQuery, r)
    /\ UNCHANGED session

CallDelete ==
    /\ call = Idle
    /\ \E resource_type \in ResourceTypes, value \in Values,
          path_args \in PathArgs, ignore_missing \in BOOLEAN,
          oc \in CapabilityOutcomes :
          LET r == _delete(heap, resource_type, value, path_args,
                           ignore_missing, oc)
          IN  /\ heap' = r.heap
              /\ call' = Called("delete", resource_type, value, path_args,
                                EmptyDict, ignore_missing, FALSE, NoQuery, r)
    /\ UNCHANGED session

CallUpdate ==
    /\ call = Idle
    /\ \E resource_type \in ResourceTypes, value \in Values,
          path_args \in PathArgs, attrs \in Dicts, oc \in CapabilityOutcomes :
          LET r == _update(heap, resource_type, value, path_args, attrs, oc)
          IN  /\ heap' = r.heap
              /\ call' = Called("update", resource_type, value, path_args,
                                attrs, FALSE, FALSE, NoQuery, r)
    /\ UNCHANGED session

CallCreate ==
    /\ call = Idle
    /\ \E resource_type \in ResourceTypes, path_args \in PathArgs,
          attrs \in Dicts, oc \in CapabilityOutcomes :
          LET r == _create(heap, resource_type, path_args, attrs, oc)
          IN  /\ heap' = r.heap
              /\ call' = Called("create", resource_type, NoValue, path_args,
                                attrs, FALSE, FALSE, NoQuery, r)
    /\ UNCHANGED session

CallList ==
    /\ call = Idle
    /\ \E resource_type \in ResourceTypes, value \in Values,
          paginated \in BOOLEAN, path_args \in PathArgs, query \in Queries,
          oc \in CapabilityOutcomes :
          LET r == _list(heap, resource_type, value, paginated, path_args,
                         query, oc)
          IN  /\ heap' = r.heap
              /\ call' = Called("list", resource_type, value, path_args,
                                EmptyDict, FALSE, paginated, query, r)
    /\ UNCHANGED session

CallHead ==
    /\ call = Idle
    /\ \E resource_type \in ResourceTypes, value \in Values,
          path_args \in PathArgs, oc \in CapabilityOutcomes :
          LET r == _head(heap, resource_type, value, path_args, oc)
          IN  /\ heap' = r.heap
              /\ call' = Called("head", resource_type, value, path_args,
                                EmptyDict, FALSE, FALSE, NoQuery, r)
    /\ UNCHANGED session

CallStrict ==
    /\ call = Idle
    /\ \E resource_type \in ResourceTypes, value \in Values :
          LET r == _strict(heap, resource_type, value)
          IN  /\ heap' = r.heap
              /\ call' = Called("strict", resource_type, value, NoPathArgs,
                                EmptyDict, FALSE, FALSE, NoQuery, r)
    /\ UNCHANGED session

\* The caller takes what the call returned or raised.
Done ==
    /\ call # Idle
    /\ call' = Idle
    /\ UNCHANGED <<session, heap>>

Next ==
    \/ CallCreate
    \/ CallDelete
    \/ CallUpdate
    \/ CallGet
    \/ CallList
    \/ CallHead
    \/ CallStrict
    \/ Done

Spec == Init /\ [][Next]_vars

(***************************************************************************)
(* Claims.                                                                 *)
(***************************************************************************)
Operations == {"get", "delete", "update", "create", "list", "head"}

\* The call's value is a resource instance that is not an instance of the
\* call's resource type.
Mismatched ==
    /\ IsResource(call.value)
    /\ ~IsInstanceOf(heap[call.value.v].cls, call.resource_type)

RaisedValueError ==
    call.outcome.kind = "raise" /\ call.outcome.exc.cls = "ValueError"

\* The message "No <type> found for <value>" of the call.
NotFoundMessage == <<"No", call.resource_type, "found for", Str(call.value)>>

\* C1: _get, _update and _delete of a resource instance that is not an
\* instance of the resource type raise ValueError, and neither the resolver
\* nor any capability has run by then.
C1_MismatchRaisesBeforeAnyCall ==
    (call.op \in {"get", "update", "delete"} /\ Mismatched)
        => /\ RaisedValueError
           /\ call.invoked = <<>>
           /\ call.resolved = <<>>

C1_Witness ==
    /\ call.op = "delete"
    /\ Mismatched
    /\ RaisedValueError
    /\ call.path_args.given

\* C2: when the get capability fails with the transport's "not found", _get
\* raises ResourceNotFound with the failure's details and status code and a
\* message built from the type's name and the caller's value.
C2_GetNotFoundTranslated ==
    (call.op = "get" /\ Len(call.invoked) = 1
     /\ IsNotFound(call.invoked[1].result))
        => /\ call.outcome.kind = "raise"
           /\ call.outcome.exc.cls = "ResourceNotFound"
           /\ call.outcome.exc.details = call.invoked[1].result.exc.details
           /\ call.outcome.exc.status_code =
                  call.invoked[1].result.exc.status_code
           /\ call.outcome.exc.message = NotFoundMessage

C2_Witness ==
    /\ call.op = "get"
    /\ Len(call.invoked) = 1
    /\ IsNotFound(call.invoked[1].result)
    /\ call.value = RawId("a")
    /\ call.outcome.exc.message = <<"No", "Server", "found for", "a">>

\* C3: when the delete capability fails with "not found", _delete returns
\* None if ignore_missing and raises ResourceNotFound (message from the type
\* and the value, the failure's details and status code) if not; when the
\* capability returns, _delete returns its result whatever ignore_missing is.
C3_DeleteIgnoreMissing ==
    (call.op = "delete" /\ Len(call.invoked) = 1)
        => LET oc == call.invoked[1].result
           IN  /\ (IsNotFound(oc) /\ call.ignore_missing)
                      => call.outcome = Return(None)
               /\ (IsNotFound(oc) /\ ~call.ignore_missing)
                      => /\ call.outcome.kind = "raise"
                         /\ call.outcome.exc =
                                ResourceNotFound(NotFoundMessage,
                                                 oc.exc.details,
                                                 oc.exc.status_code)
               /\ oc.kind = "return" => call.outcome = oc

C3_Witness ==
    /\ call.op = "delete"
    /\ Len(call.invoked) = 1
    /\ IsNotFound(call.invoked[1].result)
    /\ call.ignore_missing
    /\ call.outcome = Return(None)

\* A merge of path_args that takes an instance's attributes from before to
\* after keeps every attribute that held a value; so it sets none to None.
MergeKeeps(before, after) ==
    \A k \in Keys : before[k] # None => after[k] = before[k]

\* C4: the merge of path_args into the resolved instance (the resolver) or
\* into the new instance (_create) keeps every attribute that already holds a
\* value and sets no attribute to None.
C4_MergeNeverOverwrites ==
    [][(call = Idle /\ call' # Idle /\ call'.path_args.given)
          => /\ Len(call'.resolved) = 1
                 => MergeKeeps(_get_resource(heap, call'.resource_type,
                                             call'.value, NoPathArgs).attrs,
                               call'.resolved[1].attrs)
             /\ call'.op = "create"
                 => MergeKeeps(new(call'.resource_type, call'.attrs).attrs,
                               call'.invoked[1].target.attrs)]_vars

\* C5: _list and _head of a resource instance that is not an instance of the
\* resource type raise ValueError and invoke no capability.
C5_ListHeadCheckType ==
    (call.op \in {"list", "head"} /\ Mismatched)
        => RaisedValueError /\ call.invoked = <<>>

\* C6: a failure of the capability, other than a "not found" in _get and in
\* _delete, is what the call raises: the same failure, not another one and
\* not a return.
C6_FailuresPropagateUnchanged ==
    (call.op \in Operations /\ Len(call.invoked) = 1
     /\ call.invoked[1].result.kind = "raise"
     /\ ~(IsNotFound(call.invoked[1].result)
          /\ call.op \in {"get", "delete"}))
        => call.outcome = call.invoked[1].result

C6_Witness ==
    /\ call.op = "update"
    /\ Len(call.invoked) = 1
    /\ IsNotFound(call.invoked[1].result)
    /\ call.outcome = call.invoked[1].result

\* C7: the resolver makes an instance of T with the identifier from a raw
\* identifier and uses the very instance it is given when that is an
\* instance of T, so _get of a raw identifier and _get of an instance of T
\* with that identifier invoke get on instances of T with the same
\* identifier.
C7_ResolutionIndependentOfShape ==
    (call.op = "get" /\ Len(call.invoked) = 1 /\ ~call.path_args.given)
        => LET T == call.resource_type
               t == call.invoked[1].target
               res == _get_resource(heap, T, call.value, NoPathArgs)
           IN  /\ call.value.tag = "id"
                   => /\ res.cls = T
                      /\ res.attrs[id_attribute(T)] = call.value.v
                      /\ t = res
                      /\ \A e \in Oids, oc \in CapabilityOutcomes :
                            (/\ IsInstanceOf(heap[e].cls, T)
                             /\ heap[e].attrs[id_attribute(T)] = call.value.v)
                                => LET b == _get(heap, T, Ref(e), NoPathArgs,
                                                 oc).invoked[1].target
                                   IN  /\ IsInstanceOf(b.cls, T)
                                       /\ b.attrs[id_attribute(T)] =
                                              t.attrs[id_attribute(T)]
               /\ call.value.tag = "res"
                   => t.oid = call.value.v /\ t = heap[call.value.v]

C7_Witness ==
    /\ call.op = "get"
    /\ Len(call.invoked) = 1
    /\ ~call.path_args.given
    /\ call.resource_type = "Server"
    /\ call.value = RawId("a")
    /\ call.invoked[1].target.oid = NewOid
    /\ heap["o1"].attrs["id"] = "a"
    /\ heap["o1"].attrs["project_id"] = "b"

\* The instance _create hands to the create capability is a new one.
CreatedFresh ==
    /\ Len(call.invoked) = 1
    /\ call.invoked[1].cap = "create"
    /\ call.invoked[1].target.oid = NewOid
    /\ call.invoked[1].target.cls = call.resource_type

C9_StrictRequiresInstance ==
    (call.op = "strict" /\ call.value.tag # "none"
     /\ ~isinstance(heap, call.value, call.resource_type))
        => RaisedValueError /\ call.outcome # Return("called")

C9_Witness ==
    /\ call.op = "strict"
    /\ call.value.tag = "id"
    /\ RaisedValueError
    /\ call.outcome.exc.message = <<"A", call.resource_type, "must be passed">>

\* C10: a call invokes at most one capability, once, its own, with the
\* proxy's session, and no call changes the proxy's session.
C10_OneInvocationSameSession ==
    [][/\ Len(call'.invoked) <= 1
       /\ \A i \in 1..Len(call'.invoked) :
             /\ call'.invoked[i].session = session
             /\ call'.invoked[i].cap = call'.op
       /\ session' = session]_vars

C10_Witness ==
    /\ call.op = "delete"
    /\ ~call.ignore_missing
    /\ Len(call.invoked) = 1
    /\ IsNotFound(call.invoked[1].result)
    /\ call.invoked[1].session = session
    /\ session = "session2"

=============================================================================
